---- MODULE Spec2Model ----
(***************************************************************************)
(* otom-ai: the per-user sliding-window rate limiter (package bot) and the *)
(* two-phase tool-calling completion (package ai, Client.Complete).        *)
(***************************************************************************)
EXTENDS Integers, Sequences, FiniteSets, TLC

(* ------------------------------ bounds -------------------------------- *)
\* limits 1..MaxLimit, windows 1..MaxWindow, clock 0..MaxTime, at most MaxCalls Allow
\* calls by NumProcs goroutines, at most MaxToolCalls tool calls in a first response
MaxLimit == 2
MaxWindow == 2
MaxTime == 3
MaxCalls == 3
NumProcs == 2
MaxToolCalls == 2

Keys == {"u1", "u2"}
Procs == 1..NumProcs
NoProc == 0

VARIABLES
    limit,      \* RateLimiter.limit
    window,     \* RateLimiter.window
    requests,   \* RateLimiter.requests : userID -> timestamps
    mu,         \* RateLimiter.mu : the goroutine holding it, or NoProc
    now,        \* the clock time.Now() reads
    pc,         \* each goroutine's position in Allow
    ukey,       \* Allow's userID argument
    tnow,       \* Allow's local now
    valid,      \* Allow's local valid
    hist,       \* the returned (allowed, retryAfter) of every finished Allow, in order
    history,    \* Complete's messages argument as the caller passed it
    messages,   \* Complete's messages variable
    tools,      \* Complete's tools argument
    searchFn,   \* Complete's searchFn argument: TRUE when not nil
    cpc,        \* the position of Complete
    msg,        \* Complete's local msg
    result,     \* Complete's local result (*CompletionResult)
    calls,      \* every c.call made: its messages and tools
    execs,      \* every searchFn invocation: its query
    ret,        \* what Complete returned: (result, err)
    wires,      \* what the completion service answered to each c.call, in order
    found,      \* what searchFn returned to each invocation, in order
    expired,    \* ctx.Done() is closed: the deadline of Complete's ctx has passed
    shown,      \* the user message shown for each API error status handled so far
    reply,      \* the message handleAIError replied for Complete's error, "" before
    hpc,        \* each goroutine's position in onMessageCreate
    hev,        \* onMessageCreate's m.Author.ID
    hrec,       \* the Allow call of this handler: its index in hist, 0 when none
    ignored,    \* the event onMessageCreate last returned from before the limiter
    retries,    \* the retry-after replies sent
    started,    \* the Complete calls started, with the time of the start
    finished    \* the Complete call that returned last: its user and outcome

lvars == <<limit, window, requests, mu, now, pc, ukey, tnow, valid, hist>>
cvars == <<history, messages, tools, searchFn, cpc, msg, result, calls, execs, ret, wires, found,
          expired>>
hvars == <<hpc, hev, hrec, ignored, retries, started, finished>>
uvars == <<shown, reply, hvars>>
vars == <<lvars, cvars, uvars>>

(* --------------------------- RateLimiter ------------------------------ *)

\* a loop that also keeps a timestamp equal to the cutoff
PruneKeepsCutoff(timestamps, cutoff) == SelectSeq(timestamps, LAMBDA ts : ts >= cutoff)

\* a loop that drops nothing
PruneNothing(timestamps, cutoff) == timestamps

\* timestamps that expire together, once the newest of them has expired
PruneTogether(timestamps, cutoff) ==
    IF timestamps # <<>> /\ timestamps[Len(timestamps)] > cutoff THEN timestamps ELSE <<>>

\* the loop of Allow: keep ts when ts.After(cutoff)
Prune(timestamps, cutoff) == SelectSeq(timestamps, LAMBDA ts : ts > cutoff)

\* a limit check that is off by one
AtLimitOffByOne(v) == Len(v) > limit

\* len(valid) >= rl.limit
AtLimit(v) == Len(v) >= limit

\* a retry-after taken from the newest timestamp
RetryAfterNewest(v, t) == v[Len(v)] + window - t

\* the time elapsed since the oldest timestamp instead of the time left
RetryAfterElapsed(v, t) == t - v[1]

\* valid[0].Add(rl.window).Sub(now)
RetryAfter(v, t) == v[1] + window - t

\* a Lock that never waits
MutexIgnored == TRUE

\* rl.mu.Lock() returns only when no goroutine holds the mutex
MutexFree == mu = NoProc

InFlight == {p \in Procs : pc[p] \in {"lock", "check"}}

\* NewRateLimiter(limit, window) and goroutines that have not called Allow yet
InitLimiter ==
    /\ limit \in 1..MaxLimit
    /\ window \in 1..MaxWindow
    /\ requests = [k \in Keys |-> <<>>]
    /\ mu = NoProc
    /\ now = 0
    /\ pc = [p \in Procs |-> "idle"]
    /\ ukey = [p \in Procs |-> "u1"]
    /\ tnow = [p \in Procs |-> 0]
    /\ valid = [p \in Procs |-> <<>>]
    /\ hist = <<>>

\* the clock advances
Tick ==
    /\ now < MaxTime
    /\ now' = now + 1
    /\ UNCHANGED <<limit, window, requests, mu, pc, ukey, tnow, valid, hist>>

\* a goroutine calls rl.Allow(userID) and reaches rl.mu.Lock()
Call(p, k) ==
    /\ pc[p] = "idle"
    /\ Len(hist) + Cardinality(InFlight) < MaxCalls
    /\ pc' = [pc EXCEPT ![p] = "lock"]
    /\ ukey' = [ukey EXCEPT ![p] = k]
    /\ UNCHANGED <<limit, window, requests, mu, now, tnow, valid, hist>>

\* every user read from one bucket
EnterSharedBucket(p) ==
    /\ pc[p] = "lock"
    /\ MutexFree
    /\ mu' = p
    /\ tnow' = [tnow EXCEPT ![p] = now]
    /\ valid' = [valid EXCEPT ![p] = Prune(requests["u1"], now - window)]
    /\ pc' = [pc EXCEPT ![p] = "check"]
    /\ UNCHANGED <<limit, window, requests, now, ukey, hist>>

\* the mutex is acquired; now, cutoff and the pruned valid are computed
Enter(p) ==
    /\ pc[p] = "lock"
    /\ MutexFree
    /\ mu' = p
    /\ tnow' = [tnow EXCEPT ![p] = now]
    /\ valid' = [valid EXCEPT ![p] = Prune(requests[ukey[p]], now - window)]
    /\ pc' = [pc EXCEPT ![p] = "check"]
    /\ UNCHANGED <<limit, window, requests, now, ukey, hist>>

\* a denial that records its own timestamp
OutcomeRecordsDenied(v, t) ==
    IF AtLimit(v)
    THEN IF v = <<>>
         THEN [res |-> "panic", retry |-> 0, store |-> <<>>]
         ELSE [res |-> "denied", retry |-> RetryAfter(v, t), store |-> Append(v, t)]
    ELSE [res |-> "allowed", retry |-> 0, store |-> Append(v, t)]

\* the outcome of the limit check on the local valid at local time t
Outcome(v, t) ==
    IF AtLimit(v)
    THEN IF v = <<>>
         THEN [res |-> "panic", retry |-> 0, store |-> <<>>]   \* valid[0] of an empty slice
         ELSE [res |-> "denied", retry |-> RetryAfter(v, t), store |-> v]
    ELSE [res |-> "allowed", retry |-> 0, store |-> Append(v, t)]

\* the limit check, the write of rl.requests[userID], the deferred Unlock, the return
Decide(p) ==
    /\ pc[p] = "check"
    /\ LET k == ukey[p]
           o == Outcome(valid[p], tnow[p])
           contended == \E q \in Procs \ {p} : pc[q] = "lock" /\ ukey[q] = k
       IN /\ requests' = IF o.res = "panic" THEN requests
                         ELSE [requests EXCEPT ![k] = o.store]
          /\ hist' = Append(hist, [key |-> k, t |-> tnow[p], res |-> o.res,
                                   retry |-> o.retry, contended |-> contended])
          /\ pc' = [pc EXCEPT ![p] = IF o.res = "panic" THEN "panicked" ELSE "idle"]
    /\ mu' = NoProc
    /\ ukey' = [ukey EXCEPT ![p] = "u1"]
    /\ tnow' = [tnow EXCEPT ![p] = 0]
    /\ valid' = [valid EXCEPT ![p] = <<>>]
    /\ UNCHANGED <<limit, window, now>>

NextLimiter ==
    \/ Tick /\ UNCHANGED <<cvars, uvars>>
    \/ \E p \in Procs, k \in Keys : Call(p, k) /\ UNCHANGED <<cvars, uvars>>
    \/ \E p \in Procs : Enter(p) /\ UNCHANGED <<cvars, uvars>>
    \/ \E p \in Procs : Decide(p) /\ UNCHANGED <<cvars, uvars>>

(* -------------------------- ai.Client.Complete ------------------------ *)
Min2(a, b) == IF a <= b THEN a ELSE b

\* http.StatusOK
StatusOK == 200

\* error values: nil, *APIError, and the errors built by fmt.Errorf
\* cause is the error wrapped with %w, "" when there is none
NilErr == [type |-> "nil", status |-> 0, text |-> "", cause |-> ""]
APIError(st, body) == [type |-> "APIError", status |-> st, text |-> body, cause |-> ""]
Errorf(text) == [type |-> "error", status |-> 0, text |-> text, cause |-> ""]
Errorw(text, cause) == [type |-> "error", status |-> 0, text |-> text, cause |-> cause]

\* context.DeadlineExceeded
DeadlineExceeded == "context deadline exceeded"

Message(role, content, toolCalls, toolCallID) ==
    [Role |-> role, Content |-> content, ToolCalls |-> toolCalls, ToolCallID |-> toolCallID]

\* SearchToolDef().Function.Name, the one tool Complete acts on
SearchToolName == "search_internet"

\* the texts a model puts in FunctionCall.Arguments; they stand for the JSON texts
\* {"query":"x"}, {"query":"y"}, {} and not-json
ArgTexts == {"{query:x}", "{query:y}", "{}", "not-json"}

\* json.Unmarshal([]byte(tc.Function.Arguments), &args) into SearchArgs
UnmarshalSearchArgs(a) ==
    CASE a = "{query:x}" -> [err |-> NilErr, Query |-> "x"]
      [] a = "{query:y}" -> [err |-> NilErr, Query |-> "y"]
      [] a = "{}" -> [err |-> NilErr, Query |-> ""]
      [] OTHER -> [err |-> Errorw("arguments outil invalides", "invalid character"),
                   Query |-> ""]

ToolFns == [Name : {SearchToolName, "other_tool"}, Arguments : ArgTexts]

\* the tool_calls lists of at most n entries a response can carry; ids are per position
ToolCallSeqs(n) ==
    {[i \in 1..Len(f) |-> [ID |-> ToString(i), Function |-> f[i]]] :
        f \in UNION {[1..m -> ToolFns] : m \in 0..n}}

Contents == {"answer-a", "answer-b"}

\* the choices lists of a decoded chatResponse
ChoiceLists(n) ==
    {<<>>} \cup {<<[Message |-> Message("assistant", c, tcs, "")]>> :
                    c \in Contents, tcs \in ToolCallSeqs(n)}

\* the statuses other than 200 the service answers with
ErrorStatuses == {401, 429, 503}

\* what the HTTP exchange of one c.call can yield while ctx is live
WireOutcomes(n) ==
    {[kind |-> "marshalerr", status |-> 0, text |-> "", json |-> FALSE, choices |-> <<>>,
      cause |-> "unsupported value"],
     [kind |-> "reqerr", status |-> 0, text |-> "", json |-> FALSE, choices |-> <<>>,
      cause |-> "invalid URL"],
     [kind |-> "neterr", status |-> 0, text |-> "", json |-> FALSE, choices |-> <<>>,
      cause |-> "connection refused"],
     [kind |-> "readerr", status |-> 0, text |-> "", json |-> FALSE, choices |-> <<>>,
      cause |-> "unexpected EOF"]}
    \cup {[kind |-> "http", status |-> st, text |-> body, json |-> FALSE,
           choices |-> <<>>, cause |-> ""] :
              st \in ErrorStatuses, body \in {"upstream-body", "{error:{message}}"}}
    \cup {[kind |-> "http", status |-> StatusOK, text |-> "garbage", json |-> FALSE,
           choices |-> <<>>, cause |-> "invalid character"]}
    \cup {[kind |-> "http", status |-> StatusOK, text |-> "json", json |-> TRUE,
           choices |-> ch, cause |-> ""] : ch \in ChoiceLists(n)}

\* what it yields once ctx is done: Do or ReadAll fails with the context's error
DeadlineOutcomes ==
    {[kind |-> k, status |-> 0, text |-> "", json |-> FALSE, choices |-> <<>>,
      cause |-> DeadlineExceeded] : k \in {"neterr", "readerr"}}

\* a request built without the context
CtxDropped == FALSE

\* http.NewRequestWithContext(ctx, ...): the exchange ends when ctx is done
CtxBound == TRUE

\* the outcomes an exchange can have now
Arrivals(n) == IF CtxBound /\ expired THEN DeadlineOutcomes ELSE WireOutcomes(n)

\* an APIError turned into a plain error
callPlainErrors(w) ==
    IF w.kind = "marshalerr" THEN [resp |-> <<>>, err |-> Errorw("erreur de serialisation", w.cause)]
    ELSE IF w.kind = "reqerr" THEN [resp |-> <<>>, err |-> Errorw("erreur de creation de requete", w.cause)]
    ELSE IF w.kind = "neterr" THEN [resp |-> <<>>, err |-> Errorw("erreur reseau", w.cause)]
    ELSE IF w.kind = "readerr" THEN [resp |-> <<>>, err |-> Errorw("erreur de lecture", w.cause)]
    ELSE IF w.status # StatusOK THEN [resp |-> <<>>, err |-> Errorf("erreur API")]
    ELSE IF ~w.json THEN [resp |-> <<>>, err |-> Errorw("erreur de decodage", w.cause)]
    ELSE [resp |-> w.choices, err |-> NilErr]

\* c.call: the (resp, err) it returns for a wire outcome
call(w) ==
    IF w.kind = "marshalerr" THEN [resp |-> <<>>, err |-> Errorw("erreur de serialisation", w.cause)]
    ELSE IF w.kind = "reqerr" THEN [resp |-> <<>>, err |-> Errorw("erreur de creation de requete", w.cause)]
    ELSE IF w.kind = "neterr" THEN [resp |-> <<>>, err |-> Errorw("erreur reseau", w.cause)]
    ELSE IF w.kind = "readerr" THEN [resp |-> <<>>, err |-> Errorw("erreur de lecture", w.cause)]
    ELSE IF w.status # StatusOK THEN [resp |-> <<>>, err |-> APIError(w.status, w.text)]
    ELSE IF ~w.json THEN [resp |-> <<>>, err |-> Errorw("erreur de decodage", w.cause)]
    ELSE [resp |-> w.choices, err |-> NilErr]

\* &CompletionResult{}
EmptyResult ==
    [Reply |-> "", WebSearchUsed |-> FALSE, WebSearchError |-> NilErr, WebSearchQuery |-> ""]

NoMsg == Message("", "", <<>>, "")

(* search.Client.Search, the searchFn the bot passes *)
MaxResults == 4
\* limit := min(3, len(tavilyResp.Results))
SnippetLimit == 3

\* a fallback that is the empty string
fallbackMessageEmpty == ""

\* fallbackMessage()
fallbackMessage == "ERREUR_OUTIL: La recherche internet a echoue et est indisponible."

\* what the exchange with the Tavily API can yield
TavilyOutcomes ==
    {[kind |-> k, status |-> 0, json |-> FALSE, results |-> 0] :
        k \in {"marshalerr", "reqerr", "neterr"}}
    \cup {[kind |-> "http", status |-> st, json |-> FALSE, results |-> 0] : st \in {401, 500}}
    \cup {[kind |-> "http", status |-> StatusOK, json |-> FALSE, results |-> 0]}
    \cup {[kind |-> "http", status |-> StatusOK, json |-> TRUE, results |-> n] :
              n \in 0..MaxResults}

\* the "- title: content" lines of the first k results, joined
Snippets(k) ==
    CASE k = 1 -> "- T1: C1"
      [] k = 2 -> "- T1: C1 / - T2: C2"
      [] OTHER -> "- T1: C1 / - T2: C2 / - T3: C3"

\* Search: the (text, error) it returns for a Tavily outcome
Search(t) ==
    IF t.kind = "marshalerr"
    THEN [text |-> fallbackMessage, err |-> Errorf("serialisation requete Tavily")]
    ELSE IF t.kind = "reqerr"
    THEN [text |-> fallbackMessage, err |-> Errorf("creation requete Tavily")]
    ELSE IF t.kind = "neterr"
    THEN [text |-> fallbackMessage, err |-> Errorf("appel API Tavily")]
    ELSE IF t.status # StatusOK
    THEN [text |-> fallbackMessage, err |-> Errorf("API Tavily HTTP")]
    ELSE IF ~t.json
    THEN [text |-> fallbackMessage, err |-> Errorf("decodage reponse Tavily")]
    ELSE IF Min2(SnippetLimit, t.results) = 0
    THEN [text |-> "Aucune information recente trouvee sur le web.", err |-> NilErr]
    ELSE [text |-> Snippets(Min2(SnippetLimit, t.results)), err |-> NilErr]

\* the outcomes Search's exchange can have now: with ctx done, httpClient.Do fails
TavilyArrivals ==
    IF expired THEN {t \in TavilyOutcomes : t.kind = "neterr"} ELSE TavilyOutcomes

Histories ==
    {<<Message("system", "prompt", <<>>, ""), Message("user", "question", <<>>, "")>>,
     <<Message("system", "prompt", <<>>, ""), Message("assistant", "earlier", <<>>, ""),
       Message("user", "question", <<>>, "")>>}

\* Complete has been called with (messages, tools, searchFn)
InitComplete ==
    /\ history \in Histories
    /\ messages = history
    /\ tools \in {<<>>, <<SearchToolName>>}
    /\ searchFn \in BOOLEAN
    /\ cpc = "start"
    /\ msg = NoMsg
    /\ result = EmptyResult
    /\ calls = <<>>
    /\ execs = <<>>
    /\ ret = [result |-> <<>>, err |-> NilErr]
    /\ wires = <<>>
    /\ found = <<>>
    /\ expired = FALSE

\* an error swallowed: return nil, nil
ReturnErrSwallowed(e) ==
    /\ cpc' = "done"
    /\ ret' = [result |-> <<>>, err |-> NilErr]

\* the result built so far returned along with the error
ReturnErrPartial(e) ==
    /\ cpc' = "done"
    /\ ret' = [result |-> <<result>>, err |-> e]

\* an error answered by starting over
ReturnErrRetry(e) ==
    /\ cpc' = "start"
    /\ ret' = ret

\* return nil, err
ReturnErr(e) ==
    /\ cpc' = "done"
    /\ ret' = [result |-> <<>>, err |-> e]

\* a return that leaves result.Reply unset
ReturnReplyUnset(r, m) ==
    /\ cpc' = "done"
    /\ ret' = [result |-> <<r>>, err |-> NilErr]

\* a return that resets WebSearchUsed
ReturnReplyClearsUsed(r, m) ==
    /\ cpc' = "done"
    /\ ret' = [result |-> <<[r EXCEPT !.Reply = m.Content, !.WebSearchUsed = FALSE]>>,
               err |-> NilErr]

\* result.Reply = msg.Content; return result, nil
ReturnReply(r, m) ==
    /\ cpc' = "done"
    /\ ret' = [result |-> <<[r EXCEPT !.Reply = m.Content]>>, err |-> NilErr]

\* the last proposed call instead of the first
tcLast(m) == m.ToolCalls[Len(m.ToolCalls)]

\* tc := msg.ToolCalls[0]
tc(m) == m.ToolCalls[1]

\* a test that takes any proposed tool for the search tool
WantsSearchAnyTool(m) ==
    /\ Len(m.ToolCalls) > 0
    /\ searchFn

\* a test that does not look at searchFn
WantsSearchNoNilCheck(m) ==
    /\ Len(m.ToolCalls) > 0
    /\ tc(m).Function.Name = SearchToolName

\* the tool-calling test on the first response
WantsSearch(m) ==
    /\ Len(m.ToolCalls) > 0
    /\ searchFn
    /\ tc(m).Function.Name = SearchToolName

\* a decode error that is dropped
DecodeFailedIgnored(args) == FALSE

\* if err := json.Unmarshal(...); err != nil
DecodeFailed(args) == args.err # NilErr

\* the record of one c.call: its arguments, whether ctx was already done when it was
\* made, and whether its request can still reach the service
CallRecord(ms, ts) ==
    [messages |-> ms, tools |-> ts, after |-> expired, live |-> ~(CtxBound /\ expired)]

\* the deadline of ctx passes during the first call, the tool execution or the second call
Expire ==
    /\ cpc \in {"call1", "search", "call2"}
    /\ ~expired
    /\ expired' = TRUE
    /\ UNCHANGED <<history, messages, tools, searchFn, cpc, msg, result, calls, execs, ret,
                   wires, found>>

\* the first c.call(ctx, messages, tools) is issued
FirstCall ==
    /\ cpc = "start"
    /\ calls' = Append(calls, CallRecord(messages, tools))
    /\ cpc' = "call1"
    /\ UNCHANGED <<history, messages, tools, searchFn, msg, result, execs, ret, wires, found,
                   expired>>

\* the first call returns; Complete runs up to its return or to the call of searchFn
FirstResponse(w) ==
    /\ cpc = "call1"
    /\ LET r == call(w) IN
       IF r.err # NilErr
       THEN ReturnErr(r.err) /\ UNCHANGED <<msg, result, execs>>
       ELSE IF Len(r.resp) = 0
       THEN ReturnErr(Errorf("reponse vide du LLM")) /\ UNCHANGED <<msg, result, execs>>
       ELSE LET m == r.resp[1].Message IN
            IF WantsSearch(m)
            THEN LET args == UnmarshalSearchArgs(tc(m).Function.Arguments) IN
                 IF DecodeFailed(args)
                 THEN ReturnErr(args.err) /\ msg' = m /\ UNCHANGED execs
                      /\ result' = [result EXCEPT !.WebSearchUsed = TRUE]
                 ELSE /\ msg' = m
                      /\ result' = [result EXCEPT !.WebSearchUsed = TRUE,
                                                  !.WebSearchQuery = args.Query]
                      /\ execs' = Append(execs, args.Query)
                      /\ cpc' = "search"
                      /\ UNCHANGED ret
            ELSE ReturnReply(result, m) /\ msg' = m /\ UNCHANGED <<result, execs>>
    /\ wires' = Append(wires, w)
    /\ UNCHANGED <<history, messages, tools, searchFn, calls, found, expired>>

\* only the tool message is appended
WithToolContextNoAssistant(ms, m, text) ==
    ms \o <<Message("tool", text, <<>>, tc(m).ID)>>

\* the tool message without its ToolCallID
WithToolContextNoID(ms, m, text) ==
    ms \o <<Message("assistant", "", m.ToolCalls, ""),
            Message("tool", text, <<>>, "")>>

\* the messages of the second call: the assistant tool-call message and the tool message
WithToolContext(ms, m, text) ==
    ms \o <<Message("assistant", "", m.ToolCalls, ""),
            Message("tool", text, <<>>, tc(m).ID)>>

\* the tools forwarded again
SecondCallToolsForwarded == tools

\* the tools argument of the second call: nil
SecondCallTools == <<>>

\* a searchFn error that ends Complete
SearchReturnsAborts(t) ==
    /\ cpc = "search"
    /\ LET s == Search(t) IN
       /\ result' = [result EXCEPT !.WebSearchError = s.err]
       /\ found' = Append(found, [text |-> s.text, err |-> s.err, tavily |-> t])
       /\ IF s.err # NilErr
          THEN ReturnErr(s.err) /\ UNCHANGED <<messages, calls>>
          ELSE /\ messages' = WithToolContext(messages, msg, s.text)
               /\ calls' = Append(calls, CallRecord(messages', SecondCallTools))
               /\ cpc' = "call2"
               /\ UNCHANGED ret
    /\ UNCHANGED <<history, tools, searchFn, msg, execs, wires, expired>>

\* searchFn, that is Search, returns for the Tavily outcome t; the tool context is
\* appended and the second c.call is issued
SearchReturns(t) ==
    /\ cpc = "search"
    /\ LET s == Search(t) IN
       /\ result' = [result EXCEPT !.WebSearchError = s.err]
       /\ messages' = WithToolContext(messages, msg, s.text)
       /\ calls' = Append(calls, CallRecord(messages', SecondCallTools))
       /\ found' = Append(found, [text |-> s.text, err |-> s.err, tavily |-> t])
    /\ cpc' = "call2"
    /\ UNCHANGED <<history, tools, searchFn, msg, execs, ret, wires, expired>>

\* the second call returns
SecondResponse(w) ==
    /\ cpc = "call2"
    /\ LET r == call(w) IN
       IF r.err # NilErr
       THEN ReturnErr(r.err) /\ UNCHANGED msg
       ELSE IF Len(r.resp) = 0
       THEN ReturnErr(Errorf("reponse vide du LLM (second appel)")) /\ UNCHANGED msg
       ELSE ReturnReply(result, r.resp[1].Message) /\ msg' = r.resp[1].Message
    /\ wires' = Append(wires, w)
    /\ UNCHANGED <<history, messages, tools, searchFn, result, calls, execs, found, expired>>

(* ------------------------- APIError.UserMessage ----------------------- *)
\* the message texts are shortened to their first words and their "(Erreur ...)" suffix

\* a switch whose 429 case returns the text of the 500 case
UserMessageSharedText(st) ==
    CASE st = 400 -> "Un simple courant d'air ? (Erreur 400)"
      [] st = 401 -> "Oulah ca sent le porkass grille (Erreur 401)"
      [] st = 402 -> "Par la sainte barbe du Dieu Enutrof (Erreur 402)"
      [] st = 422 -> "Oups... Le cadran de mon Xelor interne (Erreur 422)"
      [] st = 429 -> "Aie... Une de mes tourelles Steamer (Erreur 500)"
      [] st = 500 -> "Aie... Une de mes tourelles Steamer (Erreur 500)"
      [] st = 503 -> "Embouteillage monstre au Zaap d'Astrub ! (Erreur 503)"
      [] OTHER -> "Oups, on dirait que Dieu Xelor fait encore des siennes (Erreur inconnue)"

\* func (e *APIError) UserMessage() string: switch e.StatusCode
UserMessage(st) ==
    CASE st = 400 -> "Un simple courant d'air ? (Erreur 400)"
      [] st = 401 -> "Oulah ca sent le porkass grille (Erreur 401)"
      [] st = 402 -> "Par la sainte barbe du Dieu Enutrof (Erreur 402)"
      [] st = 422 -> "Oups... Le cadran de mon Xelor interne (Erreur 422)"
      [] st = 429 -> "Oula, tes Tofus messagers sont sur les rotules ! (Erreur 429)"
      [] st = 500 -> "Aie... Une de mes tourelles Steamer (Erreur 500)"
      [] st = 503 -> "Embouteillage monstre au Zaap d'Astrub ! (Erreur 503)"
      [] OTHER -> "Oups, on dirait que Dieu Xelor fait encore des siennes (Erreur inconnue)"

(* ------------------------- Bot.handleAIError -------------------------- *)
\* the message handleAIError replies when err is not an APIError
GenericMessage == "Oups, on dirait que le Dieu Xelor fait encore des siennes"

\* a handler that never looks for an APIError
handleAIErrorGenericOnly(e) == GenericMessage

\* handleAIError: errors.As(err, &apiErr) selects apiErr.UserMessage()
handleAIError(e) ==
    IF e.type = "APIError" THEN UserMessage(e.status) ELSE GenericMessage

\* handleAIResponse: Complete returned an error, handleAIError replies to the user
HandleError ==
    /\ cpc = "done"
    /\ ret.err # NilErr
    /\ reply = ""
    /\ reply' = handleAIError(ret.err)
    /\ UNCHANGED <<lvars, cvars, shown, hvars>>

NextComplete ==
    \/ HandleError
    \/ Expire /\ UNCHANGED <<lvars, uvars>>
    \/ FirstCall /\ UNCHANGED <<lvars, uvars>>
    \/ cpc = "call1" /\ \E w \in Arrivals(MaxToolCalls) :
                            FirstResponse(w) /\ UNCHANGED <<lvars, uvars>>
    \/ cpc = "search" /\ \E t \in TavilyArrivals :
                             SearchReturns(t) /\ UNCHANGED <<lvars, uvars>>
    \* Complete reads only the content of the second answer: one tool call suffices
    \/ cpc = "call2" /\ \E w \in Arrivals(1) :
                            SecondResponse(w) /\ UNCHANGED <<lvars, uvars>>

\* the limiter as the bot constructs it, with no goroutine in Allow
LimiterIdle ==
    /\ limit = 1 /\ window = 1 /\ now = 0 /\ mu = NoProc /\ hist = <<>>
    /\ requests = [k \in Keys |-> <<>>]
    /\ pc = [p \in Procs |-> "idle"]
    /\ ukey = [p \in Procs |-> "u1"]
    /\ tnow = [p \in Procs |-> 0]
    /\ valid = [p \in Procs |-> <<>>]

\* no message event under way
HandlerIdle ==
    /\ hpc = [p \in Procs |-> "idle"]
    /\ hev = [p \in Procs |-> "u1"]
    /\ hrec = [p \in Procs |-> 0]
    /\ ignored = {} /\ retries = {} /\ started = {} /\ finished = {}

\* no Complete under way
CompleteIdle ==
    /\ history = <<>> /\ messages = <<>> /\ tools = <<>> /\ searchFn = FALSE
    /\ cpc = "idle" /\ msg = NoMsg /\ result = EmptyResult
    /\ calls = <<>> /\ execs = <<>> /\ ret = [result |-> <<>>, err |-> NilErr]
    /\ wires = <<>> /\ found = <<>> /\ expired = FALSE

(* ------------------ the statuses handleAIError is given -------------- *)
\* the status codes of the APIErrors handed to handleAIError: the seven of the switch,
\* two it does not list, and 200, which call never wraps but the type admits
ShownStatuses == {StatusOK, 400, 401, 402, 404, 422, 429, 500, 502, 503}

\* handleAIError: errors.As(err, &apiErr) holds and apiErr.UserMessage() is replied
ShowError(st) ==
    /\ st \notin DOMAIN shown
    /\ shown' = [c \in DOMAIN shown \cup {st} |->
                    IF c = st THEN UserMessage(st) ELSE shown[c]]
    /\ UNCHANGED <<reply, hvars>>

NextUserMessage ==
    \E st \in ShownStatuses : ShowError(st) /\ UNCHANGED <<lvars, cvars>>

(* ------------------------- Bot.onMessageCreate ------------------------ *)
\* s.State.User.ID, the bot's own author id
BotID == "bot"

\* the message events: author (one user or the bot itself) and whether the bot is
\* mentioned
Events == [author : {"u1", BotID}, mention : BOOLEAN]

\* how a Complete of handleAIResponse can end
CompleteOutcomes == {"reply", "error", "deadline"}

\* a handler that sends every event to the limiter
PassesFiltersAlways(e) == TRUE

\* the two early returns of onMessageCreate: own message, bot not mentioned
PassesFilters(e) == e.author # BotID /\ e.mention

\* a handler that goes on to handleAIResponse whatever Allow returned
OnMessageUnchecked(p, e) ==
    /\ hpc[p] = "idle"
    /\ IF PassesFilters(e)
       THEN /\ Len(hist) < MaxCalls
            /\ MutexFree
            /\ LET k == e.author
                   o == Outcome(Prune(requests[k], now - window), now)
               IN /\ requests' = [requests EXCEPT ![k] = o.store]
                  /\ hist' = Append(hist, [key |-> k, t |-> now, res |-> o.res,
                                           retry |-> o.retry, contended |-> FALSE])
                  /\ hpc' = [hpc EXCEPT ![p] = "admitted"]
                  /\ hev' = [hev EXCEPT ![p] = k]
                  /\ hrec' = [hrec EXCEPT ![p] = Len(hist')]
                  /\ UNCHANGED retries
            /\ UNCHANGED <<limit, window, mu, now, pc, ukey, tnow, valid, ignored>>
       ELSE /\ e \notin ignored
            /\ ignored' = {e}
            /\ UNCHANGED <<lvars, hpc, hev, hrec, retries>>
    /\ UNCHANGED <<started, finished, cvars, shown, reply>>

\* onMessageCreate up to its return or to the call of handleAIResponse: the event is
\* dropped, or rateLimiter.Allow(m.Author.ID) runs, under its mutex, and when !allowed
\* the retry-after reply is sent
OnMessage(p, e) ==
    /\ hpc[p] = "idle"
    /\ IF PassesFilters(e)
       THEN /\ Len(hist) < MaxCalls
            /\ MutexFree
            /\ LET k == e.author
                   o == Outcome(Prune(requests[k], now - window), now)
               IN /\ requests' = [requests EXCEPT ![k] = o.store]
                  /\ hist' = Append(hist, [key |-> k, t |-> now, res |-> o.res,
                                           retry |-> o.retry, contended |-> FALSE])
                  /\ IF o.res = "allowed"
                     THEN /\ hpc' = [hpc EXCEPT ![p] = "admitted"]
                          /\ hev' = [hev EXCEPT ![p] = k]
                          /\ hrec' = [hrec EXCEPT ![p] = Len(hist')]
                          /\ UNCHANGED retries
                     ELSE /\ retries' = retries \cup {[rec |-> Len(hist'), key |-> k,
                                                       retry |-> o.retry]}
                          /\ UNCHANGED <<hpc, hev, hrec>>
            /\ UNCHANGED <<limit, window, mu, now, pc, ukey, tnow, valid, ignored>>
       ELSE /\ e \notin ignored
            /\ ignored' = {e}
            /\ UNCHANGED <<lvars, hpc, hev, hrec, retries>>
    /\ UNCHANGED <<started, finished, cvars, shown, reply>>

\* a handler that gives the slot back when Complete did not reply
RunCompleteReleases(p, o) ==
    /\ hpc[p] = "admitted"
    /\ started' = started \cup {[rec |-> hrec[p], key |-> hev[p], t |-> now]}
    /\ finished' = {[key |-> hev[p], outcome |-> o]}
    /\ requests' = IF o = "reply" \/ requests[hev[p]] = <<>> THEN requests
                   ELSE [requests EXCEPT ![hev[p]] = SubSeq(@, 1, Len(@) - 1)]
    /\ hpc' = [hpc EXCEPT ![p] = "idle"]
    /\ hev' = [hev EXCEPT ![p] = "u1"]
    /\ hrec' = [hrec EXCEPT ![p] = 0]
    /\ UNCHANGED <<limit, window, mu, now, pc, ukey, tnow, valid, hist>>
    /\ UNCHANGED <<ignored, retries, cvars, shown, reply>>

\* handleAIResponse: after the typing indicator and the fetch of the channel history,
\* aiClient.Complete is called; it returns a reply, an error or the deadline error and
\* the handler replies. Complete and the replies touch nothing another handler reads.
RunComplete(p, o) ==
    /\ hpc[p] = "admitted"
    /\ started' = started \cup {[rec |-> hrec[p], key |-> hev[p], t |-> now]}
    /\ finished' = {[key |-> hev[p], outcome |-> o]}
    /\ hpc' = [hpc EXCEPT ![p] = "idle"]
    /\ hev' = [hev EXCEPT ![p] = "u1"]
    /\ hrec' = [hrec EXCEPT ![p] = 0]
    /\ UNCHANGED lvars
    /\ UNCHANGED <<ignored, retries, cvars, shown, reply>>

NextHandler ==
    \/ Tick /\ UNCHANGED <<cvars, uvars>>
    \/ \E p \in Procs, e \in Events : OnMessage(p, e)
    \/ \E p \in Procs, o \in CompleteOutcomes : RunComplete(p, o)

(* --------------------------- specifications --------------------------- *)
\* the limiter under concurrent callers
Init == InitLimiter /\ CompleteIdle /\ shown = <<>> /\ reply = "" /\ HandlerIdle
Next == NextLimiter
Spec == Init /\ [][Next]_vars

\* one Complete against every behaviour of the service and the executor
InitCompleteAlone == InitComplete /\ LimiterIdle /\ shown = <<>> /\ reply = "" /\ HandlerIdle
SpecComplete == InitCompleteAlone /\ [][NextComplete]_vars

\* the limiter under every configuration NewRateLimiter accepts with limit >= 0
InitAnyLimit ==
    /\ limit \in 0..MaxLimit
    /\ window \in 1..MaxWindow
    /\ requests = [k \in Keys |-> <<>>]
    /\ mu = NoProc
    /\ now = 0
    /\ pc = [p \in Procs |-> "idle"]
    /\ ukey = [p \in Procs |-> "u1"]
    /\ tnow = [p \in Procs |-> 0]
    /\ valid = [p \in Procs |-> <<>>]
    /\ hist = <<>>
    /\ CompleteIdle
    /\ shown = <<>> /\ reply = "" /\ HandlerIdle
SpecAnyLimit == InitAnyLimit /\ [][NextLimiter]_vars

\* the bot's message handler over the one limiter New constructs,
\* NewRateLimiter(5, 60*time.Second), scaled to the largest limit and window modelled
InitHandler ==
    /\ InitLimiter
    /\ limit = MaxLimit
    /\ window = MaxWindow
    /\ CompleteIdle /\ shown = <<>> /\ reply = "" /\ HandlerIdle
SpecHandler == InitHandler /\ [][NextHandler]_vars

\* APIError.UserMessage alone: no Allow and no Complete in progress
InitUserMessage == LimiterIdle /\ CompleteIdle /\ shown = <<>> /\ reply = "" /\ HandlerIdle
SpecUserMessage == InitUserMessage /\ [][NextUserMessage]_vars



(* ------------------------- claims: RateLimiter ------------------------ *)
Records == 1..Len(hist)

MinOf(S) == CHOOSE x \in S : \A y \in S : x <= y

\* the Allow calls for hist[i]'s key admitted before it and less than a window old at its time
PriorAdmits(i) ==
    {j \in 1..(i - 1) : /\ hist[j].key = hist[i].key
                        /\ hist[j].res = "allowed"
                        /\ hist[j].t > hist[i].t - window}

\* C1: once limit calls for a key have been admitted and all of them are less than a
\* window old, the next Allow for the key is denied with
\* retryAfter = (oldest of those timestamps) + window - now.
C1_DeniedAtLimit ==
    \A i \in Records :
        Cardinality(PriorAdmits(i)) = limit =>
            /\ hist[i].res = "denied"
            /\ hist[i].retry = MinOf({hist[j].t : j \in PriorAdmits(i)}) + window - hist[i].t

\* a denial after two admissions at different times, so that oldest and newest differ
C1_Witness ==
    \E i \in Records :
        /\ limit = 2
        /\ Cardinality(PriorAdmits(i)) = limit
        /\ Cardinality({hist[j].t : j \in PriorAdmits(i)}) = 2
        /\ hist[i].res = "denied"
        /\ hist[i].retry < window

OfKey(k) == {i \in Records : hist[i].key = k}
Admitted(k) == {i \in OfKey(k) : hist[i].res = "allowed"}
Denied(k) == {i \in OfKey(k) : hist[i].res = "denied"}
OneWindow(k) == \A i, j \in OfKey(k) : hist[i].t - hist[j].t < window

\* C2: of the N Allow calls made for one key on a fresh limiter, all within one window
\* and in whatever interleaving, exactly min(limit, N) are admitted and the rest denied.
C2_ExactAdmissions ==
    \A k \in Keys :
        OneWindow(k) =>
            /\ Cardinality(Admitted(k)) = Min2(limit, Cardinality(OfKey(k)))
            /\ Cardinality(Denied(k)) = Cardinality(OfKey(k)) - Min2(limit, Cardinality(OfKey(k)))

\* more calls than the limit, within one window, one of them decided while another
\* goroutine was blocked on the mutex for the same key
C2_Witness ==
    \E k \in Keys :
        /\ OneWindow(k)
        /\ Cardinality(OfKey(k)) > limit
        /\ Cardinality(Admitted(k)) = limit
        /\ Cardinality(Denied(k)) = Cardinality(OfKey(k)) - limit
        /\ \E i \in OfKey(k) : hist[i].contended

\* the timestamps stored for key k after the first n finished calls, had they run one
\* at a time in that order
RECURSIVE SerialStore(_, _)
SerialStore(k, n) ==
    IF n = 0 THEN <<>>
    ELSE IF hist[n].key # k THEN SerialStore(k, n - 1)
    ELSE Outcome(Prune(SerialStore(k, n - 1), hist[n].t - window), hist[n].t).store

SerialOutcome(i) ==
    Outcome(Prune(SerialStore(hist[i].key, i - 1), hist[i].t - window), hist[i].t)

\* C3: Allow is atomic: every call returns what it returns when the same calls run one at
\* a time in the order they finished, and when a key has exactly one free slot and no
\* timestamp expires in between, two calls for that key are not both admitted.
C3_Atomic ==
    /\ \A i \in Records :
          /\ hist[i].res = SerialOutcome(i).res
          /\ hist[i].retry = SerialOutcome(i).retry
    /\ \A i, j \in Records :
          (/\ i < j
           /\ hist[i].key = hist[j].key
           /\ Cardinality(PriorAdmits(i)) = limit - 1
           /\ hist[i].res = "allowed"
           /\ \A a \in PriorAdmits(i) \cup {i} : hist[a].t > hist[j].t - window)
          => hist[j].res # "allowed"
    /\ (mu = NoProc) => \A k \in Keys : requests[k] = SerialStore(k, Len(hist))

\* two goroutines were in Allow for the same key with one slot free: one was admitted
\* while the other waited for the mutex, and the other was then denied
C3_Witness ==
    \E i, j \in Records :
        /\ i < j
        /\ hist[i].key = hist[j].key
        /\ hist[i].contended
        /\ Cardinality(PriorAdmits(i)) = limit - 1
        /\ hist[i].res = "allowed"
        /\ hist[j].t = hist[i].t
        /\ hist[j].res = "denied"

\* C4: after a denial at time t with retry-after r, an Allow for the same key at a time
\* >= t + r, with no admission for that key in between, is admitted.
C4_AdmittedAfterRetry ==
    \A i, j \in Records :
        (/\ i < j
         /\ hist[i].key = hist[j].key
         /\ hist[i].res = "denied"
         /\ hist[j].t >= hist[i].t + hist[i].retry
         /\ \A m \in (i + 1)..(j - 1) : ~(hist[m].key = hist[i].key /\ hist[m].res = "allowed"))
        => hist[j].res = "allowed"

\* a denied key is admitted at exactly t + r
C4_Witness ==
    \E i, j \in Records :
        /\ i < j
        /\ hist[i].key = hist[j].key
        /\ hist[i].res = "denied"
        /\ hist[i].retry > 0
        /\ hist[j].t = hist[i].t + hist[i].retry
        /\ \A m \in (i + 1)..(j - 1) : hist[m].key # hist[i].key
        /\ hist[j].res = "allowed"

(* ------------------------ claims: Client.Complete --------------------- *)
\* the i-th c.call was answered with status 200 and at least one choice
Answered(i) ==
    /\ Len(wires) >= i
    /\ wires[i].kind = "http"
    /\ wires[i].status = StatusOK
    /\ wires[i].json
    /\ Len(wires[i].choices) > 0

\* the message of the first choice of the i-th answer
Answer(i) == wires[i].choices[1].Message

Returned == cpc = "done"
Succeeded == Returned /\ ret.err = NilErr /\ Len(ret.result) = 1
Failed == Returned /\ ret.err # NilErr /\ ret.result = <<>>

\* the first answer's first proposed call names the registered tool, an executor is supplied
ProposesSearch ==
    /\ Answered(1)
    /\ searchFn
    /\ Len(Answer(1).ToolCalls) > 0
    /\ Answer(1).ToolCalls[1].Function.Name = SearchToolName

FirstArgs == UnmarshalSearchArgs(Answer(1).ToolCalls[1].Function.Arguments)

\* C5: when the first response has no tool calls, Complete makes exactly one transport
\* call, never invokes the executor and returns, without error, the first response's
\* content as the reply with WebSearchUsed = false.
C5_NoToolCalls ==
    (Answered(1) /\ Len(Answer(1).ToolCalls) = 0) =>
        /\ Succeeded
        /\ Len(calls) = 1
        /\ execs = <<>>
        /\ ret.result[1].Reply = Answer(1).Content
        /\ ~ret.result[1].WebSearchUsed

\* a plain answer although the tool and an executor were supplied
C5_Witness ==
    /\ Answered(1) /\ Len(Answer(1).ToolCalls) = 0
    /\ searchFn /\ tools # <<>>
    /\ Succeeded /\ ret.result[1].Reply = "answer-b"

\* C6: when the first response proposes the registered tool with decodable arguments and
\* the executor returns (text, nil), there are exactly two transport calls; the second
\* call's messages are the original history, then an assistant message carrying the
\* proposed tool calls, then a tool message whose content is the executor's text; a
\* successful result has WebSearchUsed = true, WebSearchQuery = the decoded query and
\* Reply = the second response's content.
C6_ToolRound ==
    (/\ ProposesSearch
     /\ FirstArgs.err = NilErr
     /\ Len(found) = 1
     /\ found[1].err = NilErr) =>
        /\ Len(calls) = 2
        /\ execs = <<FirstArgs.Query>>
        /\ LET ms == calls[2].messages
               n == Len(history)
           IN /\ Len(ms) = n + 2
              /\ SubSeq(ms, 1, n) = history
              /\ ms[n + 1].Role = "assistant"
              /\ ms[n + 1].ToolCalls = Answer(1).ToolCalls
              /\ ms[n + 2].Role = "tool"
              /\ ms[n + 2].Content = found[1].text
        /\ (Returned /\ Answered(2)) =>
              /\ Succeeded
              /\ ret.result[1].WebSearchUsed
              /\ ret.result[1].WebSearchQuery = FirstArgs.Query
              /\ ret.result[1].Reply = Answer(2).Content

\* a finished tool round whose reply differs from the first response's content
C6_Witness ==
    /\ ProposesSearch /\ FirstArgs.err = NilErr /\ FirstArgs.Query = "x"
    /\ Len(found) = 1 /\ found[1].err = NilErr
    /\ Len(history) = 3
    /\ Succeeded
    /\ Answer(2).Content # Answer(1).Content
    /\ ret.result[1].Reply = Answer(2).Content

\* C7: when the executor returns a non-nil error, the second transport call is still made;
\* if it succeeds Complete returns a result and no error, with WebSearchUsed = true and
\* WebSearchError = the executor's error; Complete returns an error only if the second
\* call itself failed.
C7_ExecutorError ==
    (Len(found) = 1 /\ found[1].err # NilErr) =>
        /\ Len(calls) = 2
        /\ cpc \in {"call2", "done"}
        /\ (Returned /\ Answered(2)) =>
              /\ Succeeded
              /\ ret.result[1].WebSearchUsed
              /\ ret.result[1].WebSearchError = found[1].err
        /\ (Returned /\ ret.err # NilErr) => (Len(wires) = 2 /\ ~Answered(2))

\* a successful result that carries the executor's error
C7_Witness ==
    /\ Len(found) = 1 /\ found[1].err # NilErr
    /\ Succeeded
    /\ ret.result[1].WebSearchError = found[1].err
    /\ ret.result[1].Reply = Answer(2).Content

\* C8: when the first response proposes the registered tool with arguments that fail to
\* decode, Complete returns an error and no result, never invokes the executor and makes
\* no second transport call.
C8_MalformedArguments ==
    (ProposesSearch /\ FirstArgs.err # NilErr) =>
        /\ Failed
        /\ execs = <<>>
        /\ found = <<>>
        /\ Len(calls) = 1

\* malformed arguments in the first of two proposed calls, the second one well-formed
C8_Witness ==
    /\ ProposesSearch
    /\ Answer(1).ToolCalls[1].Function.Arguments = "not-json"
    /\ Len(Answer(1).ToolCalls) = 2
    /\ Answer(1).ToolCalls[2].Function.Arguments = "{query:x}"
    /\ Failed

\* C9: one Complete makes at most two transport calls and at most one executor
\* invocation and has returned once the second call is answered; the first call carries
\* the tool descriptors and the second none; a tool call proposed in the second response
\* is not acted on: its content is the reply.
C9_TwoPhases ==
    /\ Len(calls) <= 2
    /\ Len(execs) <= 1
    /\ Len(calls) >= 1 => calls[1].tools = tools
    /\ Len(calls) = 2 => calls[2].tools = <<>>
    /\ Len(wires) = 2 => Returned
    /\ Returned => Len(wires) = Len(calls)
    /\ (Answered(2) /\ Len(Answer(2).ToolCalls) > 0) =>
          /\ Succeeded
          /\ ret.result[1].Reply = Answer(2).Content
          /\ Len(calls) = 2
          /\ Len(execs) = 1

\* the second response proposes the registered tool again, with another query
C9_Witness ==
    /\ tools # <<>>
    /\ Answered(2)
    /\ Len(Answer(2).ToolCalls) > 0
    /\ Answer(2).ToolCalls[1].Function.Name = SearchToolName
    /\ Answer(2).ToolCalls[1].Function.Arguments = "{query:y}"
    /\ execs = <<"x">>
    /\ Succeeded

\* C10: when the first response proposes several tool calls, the executor is invoked at
\* most once, and only for the first proposed call, with the query decoded from that
\* call's arguments.
C10_FirstCallOnly ==
    (Answered(1) /\ Len(Answer(1).ToolCalls) >= 2) =>
        /\ Len(execs) <= 1
        /\ Len(execs) = 1 =>
              /\ Answer(1).ToolCalls[1].Function.Name = SearchToolName
              /\ execs[1] = FirstArgs.Query
        /\ (Succeeded /\ ret.result[1].WebSearchUsed) =>
              ret.result[1].WebSearchQuery = FirstArgs.Query

\* two proposed searches with different queries: only the first one ran
C10_Witness ==
    /\ Answered(1) /\ Len(Answer(1).ToolCalls) = 2
    /\ Answer(1).ToolCalls[1].Function = [Name |-> SearchToolName, Arguments |-> "{query:x}"]
    /\ Answer(1).ToolCalls[2].Function = [Name |-> SearchToolName, Arguments |-> "{query:y}"]
    /\ execs = <<"x">>
    /\ Succeeded
    /\ ret.result[1].WebSearchQuery = "x"

\* C11: when the first proposed tool call names a tool other than search_internet,
\* Complete returns, without error, the first response's content as the reply with
\* WebSearchUsed = false: no executor invocation, no decoding of the arguments, no second
\* transport call.
C11_OtherTool ==
    (/\ Answered(1)
     /\ Len(Answer(1).ToolCalls) > 0
     /\ Answer(1).ToolCalls[1].Function.Name # SearchToolName) =>
        /\ Succeeded
        /\ ret.result[1].Reply = Answer(1).Content
        /\ ~ret.result[1].WebSearchUsed
        /\ ret.result[1].WebSearchQuery = ""
        /\ execs = <<>>
        /\ Len(calls) = 1

\* an unknown tool with undecodable arguments, followed by a well-formed search proposal,
\* with an executor supplied
C11_Witness ==
    /\ Answered(1) /\ searchFn
    /\ Len(Answer(1).ToolCalls) = 2
    /\ Answer(1).ToolCalls[1].Function = [Name |-> "other_tool", Arguments |-> "not-json"]
    /\ Answer(1).ToolCalls[2].Function = [Name |-> SearchToolName, Arguments |-> "{query:x}"]
    /\ Succeeded
    /\ ret.result[1].Reply = Answer(1).Content

\* some message of some c.call has the role "tool"
SentToolMessage ==
    \E i \in 1..Len(calls) : \E j \in 1..Len(calls[i].messages) :
        calls[i].messages[j].Role = "tool"

\* C12: with no executor (searchFn nil) and a first response that proposes a tool call,
\* Complete makes exactly one transport call and returns the first response's content as
\* the reply with WebSearchUsed = false; it never appends a tool message.
C12_NoExecutor ==
    (~searchFn /\ Answered(1) /\ Len(Answer(1).ToolCalls) > 0) =>
        /\ Succeeded
        /\ Len(calls) = 1
        /\ ret.result[1].Reply = Answer(1).Content
        /\ ~ret.result[1].WebSearchUsed
        /\ execs = <<>>
        /\ messages = history
        /\ ~SentToolMessage

\* the registered tool is proposed with well-formed arguments, the descriptors were sent,
\* but there is no executor
C12_Witness ==
    /\ ~searchFn /\ tools # <<>>
    /\ Answered(1)
    /\ Len(Answer(1).ToolCalls) > 0
    /\ Answer(1).ToolCalls[1].Function = [Name |-> SearchToolName, Arguments |-> "{query:x}"]
    /\ Succeeded
    /\ ret.result[1].Reply = "answer-a"

(* ---------------------- claims: APIError.UserMessage ------------------ *)
\* the status codes the switch lists
ListedStatuses == {400, 401, 402, 422, 429, 500, 503}

\* C13: the mapping from status code to user message is total and deterministic: each of
\* 400, 401, 402, 422, 429, 500, 503 has a message of its own, every other code gets the
\* one "unknown" message, and the eight messages are pairwise distinct (429 and 500 differ).
C13_UserMessageTotal ==
    \A a \in DOMAIN shown : \A b \in DOMAIN shown :
        /\ shown[a] # ""
        /\ (a \in ListedStatuses /\ a # b) => shown[a] # shown[b]
        /\ (a \notin ListedStatuses /\ b \notin ListedStatuses) => shown[a] = shown[b]

\* every status has been shown, 429, 500 and two unlisted codes among them
C13_Witness ==
    /\ DOMAIN shown = ShownStatuses
    /\ {429, 500, 404, 502} \subseteq DOMAIN shown

(* ------------------ claims: errors of Client.Complete ----------------- *)
\* the i-th exchange was answered with a status other than 200
Refused(i) ==
    /\ i <= Len(wires)
    /\ wires[i].kind = "http"
    /\ wires[i].status # StatusOK

\* C14: when the service answers either phase with a status other than 200, call returns
\* an APIError with exactly that status and raw body, and Complete hands that same error
\* to its caller with no result and without any further transport call.
C14_NonOKStatus ==
    \A i \in 1..Len(wires) :
        Refused(i) =>
            /\ Failed
            /\ ret.err = APIError(wires[i].status, wires[i].text)
            /\ Len(wires) = i
            /\ Len(calls) = i

\* the second phase, after a search, is answered 503
C14_Witness ==
    /\ Len(execs) = 1
    /\ Refused(2)
    /\ wires[2].status = 503
    /\ wires[2].text = "upstream-body"
    /\ Failed

\* the i-th exchange was answered 200 with a decodable body holding no choice
NoChoice(i) ==
    /\ i <= Len(wires)
    /\ wires[i].kind = "http"
    /\ wires[i].status = StatusOK
    /\ wires[i].json
    /\ wires[i].choices = <<>>

\* C15: a status-200 response with zero choices makes Complete fail with an
\* empty-response error in whichever phase it occurs; when the first response is the empty
\* one, the executor is not invoked and no second call is made.
C15_EmptyResponse ==
    \A i \in 1..Len(wires) :
        NoChoice(i) =>
            /\ Failed
            /\ ret.err.type = "error"
            /\ ret.err.text = IF i = 1 THEN "reponse vide du LLM"
                                        ELSE "reponse vide du LLM (second appel)"
            /\ Len(wires) = i
            /\ Len(calls) = i
            /\ (i = 1 => execs = <<>>)

\* the first response is the empty one
C15_Witness ==
    /\ NoChoice(1)
    /\ searchFn /\ tools # <<>>
    /\ Failed

\* the second response, after a search that succeeded, is the empty one
C15_WitnessSecond ==
    /\ NoChoice(2)
    /\ found[1].err = NilErr
    /\ Failed

\* errors.Is(ret.err, context.DeadlineExceeded)
DeadlineError == ret.err # NilErr /\ ret.err.cause = DeadlineExceeded

\* C16 as stated: when the one deadline covering both phases expires during the first
\* call, during tool execution or during the second call, Complete returns a deadline
\* error with no reply, and once the deadline has expired it starts no further transport
\* call. Complete does not look at ctx between searchFn and the second c.call, so an
\* expiry during tool execution is followed by that call.
C16_NoCallAfterExpiry ==
    /\ (expired /\ Returned) => (Failed /\ DeadlineError)
    /\ \A i \in 1..Len(calls) : ~calls[i].after

\* C16: when the one deadline covering both phases expires during the first call, during
\* tool execution or during the second call, Complete returns a deadline error and no
\* reply; a transport call it still starts once the deadline has expired carries the
\* expired context, so its request never reaches the service.
C16_Deadline ==
    /\ (expired /\ Returned) => (Failed /\ DeadlineError)
    /\ \A i \in 1..Len(calls) : calls[i].after => ~calls[i].live

\* the deadline expires during tool execution: the search is cut short, the second
\* c.call is made with the expired context and gives the deadline error back
C16_Witness ==
    /\ expired /\ Failed /\ DeadlineError
    /\ Len(calls) = 2
    /\ ~calls[1].after /\ calls[2].after
    /\ Len(execs) = 1
    /\ found[1].tavily.kind = "neterr"

\* the deadline expires while the second call is in flight, after a search that succeeded
C16_WitnessSecond ==
    /\ expired /\ Failed /\ DeadlineError
    /\ Len(calls) = 2
    /\ ~calls[2].after
    /\ found[1].err = NilErr

\* the deadline expires while the first call is in flight
C16_WitnessFirst ==
    /\ expired /\ Failed /\ DeadlineError
    /\ Len(calls) = 1
    /\ ~calls[1].after

\* C17: every Complete ends either with a result and no error or with an error and no
\* result; a failure in the second phase returns neither the first phase's content nor a
\* partly filled result.
C17_ResultOrError ==
    Returned =>
        /\ (Succeeded /\ ~Failed) \/ (Failed /\ ~Succeeded)
        /\ (Len(wires) = 2 /\ ~Answered(2)) => (Failed /\ ret.result = <<>>)

\* the second phase fails after a first response with content and after a search whose
\* query is already recorded in the result under construction
C17_Witness ==
    /\ Returned
    /\ Len(wires) = 2 /\ ~Answered(2)
    /\ Answer(1).Content = "answer-a"
    /\ result.WebSearchUsed
    /\ result.WebSearchQuery = "x"
    /\ ret.err # NilErr

(* ------------------- claims: the tool context messages ---------------- *)
\* the messages of the second transport call
SecondMessages == calls[2].messages

\* C18: in every second transport call, each tool invocation listed in the appended
\* assistant message is answered, before the call is sent, by a tool-role message with
\* the matching ToolCallID, also when the model proposed several tool calls in one turn.
C18_EveryCallAnswered ==
    Len(calls) >= 2 =>
        \A p \in 1..Len(SecondMessages) :
            \A k \in 1..Len(SecondMessages[p].ToolCalls) :
                \E j \in (p + 1)..Len(SecondMessages) :
                    /\ SecondMessages[j].Role = "tool"
                    /\ SecondMessages[j].ToolCallID = SecondMessages[p].ToolCalls[k].ID

\* C19: every tool-role message Complete sends carries a non-empty ToolCallID, the id of
\* the invocation that was executed (the first proposed one), which is listed in the
\* assistant message immediately before it; user and system messages carry no tool calls.
C19_ToolCallID ==
    \A i \in 1..Len(calls) : \A j \in 1..Len(calls[i].messages) :
        LET ms == calls[i].messages IN
        /\ ms[j].Role = "tool" =>
              /\ ms[j].ToolCallID # ""
              /\ ms[j].ToolCallID = Answer(1).ToolCalls[1].ID
              /\ j > 1
              /\ ms[j - 1].Role = "assistant"
              /\ \E k \in 1..Len(ms[j - 1].ToolCalls) :
                    ms[j - 1].ToolCalls[k].ID = ms[j].ToolCallID
        /\ ms[j].Role \in {"user", "system"} => ms[j].ToolCalls = <<>>

\* a second call is sent after a first response that proposed two calls
C19_Witness ==
    /\ Len(calls) = 2
    /\ Len(Answer(1).ToolCalls) = 2
    /\ SecondMessages[Len(SecondMessages)].Role = "tool"
    /\ SecondMessages[Len(SecondMessages)].ToolCallID = "1"
    /\ \E j \in 1..Len(SecondMessages) : SecondMessages[j].Role = "user"

\* the Tavily exchange of the k-th search failed on one of Search's error paths
SearchFailed(k) ==
    ~(found[k].tavily.kind = "http" /\ found[k].tavily.status = StatusOK
      /\ found[k].tavily.json)

\* C20: the tool message of every second call has non-empty content, the executor's text
\* when it succeeded and the fixed fallback instruction when it failed; Search returns the
\* fallback text with a non-nil error on every failure path and never an empty string.
C20_ToolContent ==
    /\ \A k \in 1..Len(found) :
          /\ found[k].text # ""
          /\ SearchFailed(k) <=> found[k].err # NilErr
          /\ SearchFailed(k) => found[k].text = fallbackMessage
          /\ ~SearchFailed(k) => found[k].text # fallbackMessage
    /\ Len(calls) >= 2 =>
          LET m == SecondMessages[Len(SecondMessages)] IN
          /\ m.Role = "tool"
          /\ m.Content # ""
          /\ m.Content = found[1].text

\* Tavily answers 500: the second call carries the fallback instruction
C20_Witness ==
    /\ Len(calls) = 2
    /\ found[1].tavily.kind = "http" /\ found[1].tavily.status = 500
    /\ found[1].err # NilErr
    /\ SecondMessages[Len(SecondMessages)].Content = fallbackMessage

\* Tavily answers 200 with more results than Search keeps
C20_WitnessFound ==
    /\ Len(calls) = 2
    /\ found[1].tavily.results > SnippetLimit
    /\ found[1].err = NilErr
    /\ SecondMessages[Len(SecondMessages)].Content = Snippets(SnippetLimit)

(* ------------------ claims: RateLimiter, stored state ----------------- *)
\* the admissions for key k with a timestamp in (t - window, t]
AdmittedIn(k, t) == {i \in Admitted(k) : hist[i].t > t - window /\ hist[i].t <= t}

\* C21: whatever the interleaving of the Allow calls, for every key and every instant t
\* at most limit admissions for the key have a timestamp in (t - window, t]; an admission
\* counts against a later call exactly while it is less than a window old, each one on
\* its own.
C21_SlidingWindow ==
    /\ \A k \in Keys : \A t \in 0..MaxTime : Cardinality(AdmittedIn(k, t)) <= limit
    /\ \A i \in Records :
          hist[i].res = "allowed" <=> Cardinality(PriorAdmits(i)) < limit

\* with limit 2, a call is admitted while one earlier admission still counts and an older
\* one has expired
C21_Witness ==
    \E i \in Records :
        /\ limit = 2
        /\ hist[i].res = "allowed"
        /\ Cardinality(PriorAdmits(i)) = 1
        /\ \E j \in 1..(i - 1) : /\ hist[j].key = hist[i].key
                                /\ hist[j].res = "allowed"
                                /\ hist[j].t <= hist[i].t - window

\* the Allow that returns in this step, when one does
Returns == Len(hist') = Len(hist) + 1
Last == hist'[Len(hist')]

SortedStored ==
    \A k \in Keys : \A a, b \in 1..Len(requests[k]) :
        a < b => requests[k][a] <= requests[k][b]

PrunedAfterAllow ==
    (Returns /\ Last.res # "panic") =>
        \A n \in 1..Len(requests'[Last.key]) : requests'[Last.key][n] > Last.t - window

\* C22: in every reachable state each key's stored timestamps are sorted ascending, and
\* right after an Allow for a key its stored sequence holds no timestamp at or before
\* now - window.
C22_SortedAndPruned == []SortedStored /\ [][PrunedAfterAllow]_vars

\* an Allow has just dropped an expired timestamp and left two, in order, for its key
C22_Witness ==
    /\ Len(hist) = 3
    /\ hist[1].res = "allowed" /\ hist[1].key = hist[3].key
    /\ hist[1].t <= hist[3].t - window
    /\ requests[hist[3].key] = <<hist[2].t, hist[3].t>>
    /\ hist[2].t < hist[3].t

DeniedKeepsStore ==
    (Returns /\ Last.res = "denied") =>
        requests'[Last.key] =
            SelectSeq(requests[Last.key], LAMBDA ts : ts > Last.t - window)

\* two denials for one key with no admission for it in between point at the same instant
SameRetryInstant ==
    \A i, j \in Records :
        (/\ i < j
         /\ hist[i].key = hist[j].key
         /\ hist[i].res = "denied" /\ hist[j].res = "denied"
         /\ \A m \in (i + 1)..(j - 1) : ~(hist[m].key = hist[i].key /\ hist[m].res = "allowed"))
        => hist[j].t + hist[j].retry = hist[i].t + hist[i].retry

\* C23: a denied Allow records no timestamp: after a denial the key's stored sequence is
\* its previous sequence without the expired entries, so repeated denied calls never
\* postpone the instant at which the key is admitted again.
C23_DenialRecordsNothing == [][DeniedKeepsStore]_vars /\ []SameRetryInstant

\* a key is denied twice, at different times, after its one admission
C23_Witness ==
    \E i, j \in Records :
        /\ i < j
        /\ hist[i].key = hist[j].key
        /\ hist[i].res = "denied" /\ hist[j].res = "denied"
        /\ hist[i].t < hist[j].t
        /\ Len(requests[hist[i].key]) = 1

\* C24: in every reachable state of a limiter with limit >= 0, no key has more than limit
\* timestamps stored.
C24_StoredAtMostLimit ==
    \A k \in Keys : Len(requests[k]) <= limit

\* a key holds limit timestamps and has been denied
C24_Witness ==
    \E k \in Keys :
        /\ limit >= 1
        /\ Len(requests[k]) = limit
        /\ Denied(k) # {}

\* C25: Allow returns retryAfter = 0 exactly when it admits; on every denial the
\* retryAfter is strictly positive and at most the window.
C25_RetryAfterRange ==
    \A i \in Records :
        /\ hist[i].res = "allowed" <=> hist[i].retry = 0
        /\ hist[i].res = "denied" => (hist[i].retry > 0 /\ hist[i].retry <= window)

\* a denial with the whole window left and one with less
C25_Witness ==
    \E i, j \in Records :
        /\ hist[i].res = "denied" /\ hist[i].retry = window
        /\ hist[j].res = "denied" /\ hist[j].retry < window

\* C26: Allow returns a decision without faulting for every key under every configuration
\* with limit >= 0, limit = 0 included (where every request is denied): whenever it
\* denies, an unexpired timestamp remains for the key, from which retryAfter is computed.
C26_NoFault ==
    \A i \in Records :
        /\ hist[i].res \in {"allowed", "denied"}
        /\ hist[i].res = "denied" => PriorAdmits(i) # {}
        /\ limit = 0 => hist[i].res = "denied"

OthersUntouched ==
    Returns => \A k \in Keys \ {Last.key} : requests'[k] = requests[k]

\* the earlier calls for hist[i]'s key: their times and decisions
OwnHistory(i) ==
    LET own == SelectSeq(SubSeq(hist, 1, i - 1), LAMBDA r : r.key = hist[i].key)
    IN [n \in 1..Len(own) |-> <<own[n].t, own[n].res>>]

OwnHistoryDecides ==
    \A i, j \in Records :
        (hist[i].t = hist[j].t /\ OwnHistory(i) = OwnHistory(j)) =>
            (hist[i].res = hist[j].res /\ hist[i].retry = hist[j].retry)

\* C27: Allow for key k leaves the stored timestamps of every other key unchanged, and
\* its decision and retry-after depend only on k's own history and the current time.
C27_KeysIndependent == [][OthersUntouched]_vars /\ []OwnHistoryDecides

\* one key is at its limit and denied while the other key, at the same time, is admitted
C27_Witness ==
    \E i, j \in Records :
        /\ hist[i].key # hist[j].key
        /\ hist[i].res = "denied"
        /\ i < j /\ hist[j].t = hist[i].t
        /\ hist[j].res = "allowed"
        /\ requests[hist[i].key] # <<>>

(* ------------------- claims: error kinds and replies ------------------ *)
\* the i-th exchange never completed: the request could not be serialized, built or
\* sent, or its answer could not be read or decoded
Incomplete(i) ==
    /\ i <= Len(wires)
    /\ \/ wires[i].kind \in {"marshalerr", "reqerr", "neterr", "readerr"}
       \/ (wires[i].kind = "http" /\ wires[i].status = StatusOK /\ ~wires[i].json)

\* C28: a failure in which the request never completed (serialization, network,
\* unreadable or undecodable body) is returned as an error that is not an APIError, an
\* error status from the service always as an APIError; the caller answers the first kind
\* with the generic message and the second with the message of the status.
C28_ErrorKinds ==
    \A i \in 1..Len(wires) :
        /\ Incomplete(i) =>
              /\ Failed
              /\ ret.err.type # "APIError"
              /\ reply \in {"", GenericMessage}
        /\ Refused(i) =>
              /\ Failed
              /\ ret.err.type = "APIError"
              /\ reply \in {"", UserMessage(wires[i].status)}
              /\ reply # GenericMessage

\* the service answered 429 and the user got the message of 429
C28_Witness ==
    /\ Len(wires) >= 1
    /\ Refused(Len(wires))
    /\ wires[Len(wires)].status = 429
    /\ reply = UserMessage(429)

\* the body of a 200 answer could not be decoded and the user got the generic message
C28_WitnessGeneric ==
    /\ Len(wires) >= 1
    /\ Incomplete(Len(wires))
    /\ wires[Len(wires)].kind = "http"
    /\ reply = GenericMessage

\* the texts of the protocol errors of Complete and call
ProtocolErrorTexts ==
    {"reponse vide du LLM", "reponse vide du LLM (second appel)",
     "arguments outil invalides", "erreur de decodage"}

\* C29: a deadline expiry during Complete reaches the caller as an error of a kind
\* distinct from the protocol errors (empty choices, malformed tool arguments, decoding
\* failure) and from the API errors, and the caller presents for it a message other than
\* the one of a generic failure.
C29_DeadlineMessage ==
    (Failed /\ DeadlineError) =>
        /\ ret.err.type # "APIError"
        /\ ret.err.text \notin ProtocolErrorTexts
        /\ reply # GenericMessage

\* the first response, or what came in its place, makes Complete fail
FirstFails ==
    /\ Len(wires) >= 1
    /\ \/ call(wires[1]).err # NilErr
       \/ NoChoice(1)
       \/ (ProposesSearch /\ FirstArgs.err # NilErr)

SecondFails ==
    /\ Len(wires) = 2
    /\ (call(wires[2]).err # NilErr \/ NoChoice(2))

OnceOnly == Returned => UNCHANGED <<cpc, ret, calls, execs, wires, found>>

NoRetry ==
    /\ Len(calls) <= 2 /\ Len(execs) <= 1 /\ Len(wires) <= Len(calls)
    /\ FirstFails => (Failed /\ Len(calls) = 1 /\ Len(wires) = 1 /\ execs = <<>>)
    /\ SecondFails => (Failed /\ Len(calls) = 2 /\ Len(execs) = 1)
    /\ \A i \in 1..Len(wires) :
          call(wires[i]).err # NilErr => ret.err = call(wires[i]).err
    /\ Len(calls) = 2 => calls[2].messages # calls[1].messages

\* C30: Complete never retries: once a transport call fails or a response fails to
\* parse, it makes no further transport call and no executor invocation and returns that
\* failure once; the transport call of each phase is attempted at most once.
C30_NoRetry == []NoRetry /\ [][OnceOnly]_vars

\* the second call's answer cannot be decoded, after one search
C30_Witness ==
    /\ SecondFails
    /\ wires[2].kind = "http" /\ wires[2].status = StatusOK /\ ~wires[2].json
    /\ Len(execs) = 1
    /\ Failed

\* the first call fails on the network
C30_WitnessFirst ==
    /\ FirstFails
    /\ wires[1].kind = "neterr"
    /\ searchFn /\ tools # <<>>
    /\ Failed

(* --------------------- claims: CompletionResult ----------------------- *)
ResultFlags ==
    Succeeded =>
        LET r == ret.result[1] IN
        /\ r.WebSearchUsed <=> (Len(execs) = 1 /\ Len(calls) = 2)
        /\ ~r.WebSearchUsed => (execs = <<>> /\ Len(calls) = 1)
        /\ (r.WebSearchError # NilErr \/ r.WebSearchQuery # "") => r.WebSearchUsed

\* searchFn is invoked once the first call has returned, and has returned when the
\* second call starts
ExecutorBetweenCalls ==
    /\ Len(execs') > Len(execs) =>
          (Len(calls) = 1 /\ Len(wires') = 1 /\ Len(calls') = 1)
    /\ Len(calls') > Len(calls) /\ Len(calls) = 1 =>
          (Len(execs) = 1 /\ Len(found') = 1 /\ Len(wires) = 1)

\* C31: in every successful result of Complete, WebSearchUsed is true if and only if
\* the executor was invoked exactly once and exactly two transport calls were made; the
\* executor ran after the first call returned and before the second started; a
\* WebSearchError or a non-empty WebSearchQuery is present only with WebSearchUsed.
C31_ResultFlags == []ResultFlags /\ [][ExecutorBetweenCalls]_vars

\* a success whose search failed: flag, query and error are all set
C31_Witness ==
    /\ Succeeded
    /\ ret.result[1].WebSearchUsed
    /\ ret.result[1].WebSearchQuery = "x"
    /\ ret.result[1].WebSearchError # NilErr
    /\ Len(calls) = 2 /\ Len(execs) = 1

(* ---------------------- claims: Bot.onMessageCreate ------------------- *)
\* the Complete calls started for key k at a time in (t - window, t]
StartedIn(k, t) == {c \in started : c.key = k /\ c.t > t - window /\ c.t <= t}

\* every Complete was started by a handler whose Allow had admitted the author, once per
\* admission; every denial got its retry-after reply and no Complete; the dropped events
\* are the bot's own messages and those that do not mention it
AdmittedFirst ==
    /\ \A c \in started :
          /\ c.rec \in Records
          /\ hist[c.rec].res = "allowed"
          /\ hist[c.rec].key = c.key
          /\ c.t >= hist[c.rec].t
    /\ \A c, d \in started : c.rec = d.rec => c = d
    /\ \A i \in Records :
          hist[i].res = "denied" =>
              /\ [rec |-> i, key |-> hist[i].key, retry |-> hist[i].retry] \in retries
              /\ \A c \in started : c.rec # i
              /\ \A p \in Procs : hrec[p] # i
    /\ \A r \in retries : hist[r.rec].res = "denied"
    /\ \A i \in Records : hist[i].key # BotID
    /\ \A e \in ignored : e.author = BotID \/ ~e.mention

\* a dropped event reaches neither the limiter nor Complete
DroppedTouchNothing ==
    ignored' # ignored => UNCHANGED <<lvars, hpc, hrec, retries, started, finished>>

\* C32 as stated: Complete is invoked only after Allow admitted the author's key, so the
\* completions started per user never exceed the limit (5) in any window (60 s); the
\* bot's own messages and those not mentioning it reach neither the limiter nor
\* Complete; a denied message gets a retry-after reply and no transport call. Between
\* the admission and the start of Complete lie the typing indicator and the fetch of the
\* channel history, so the starts can fall closer together than the admissions.
C32_StartsPerWindow ==
    /\ AdmittedFirst
    /\ \A k \in Keys : \A t \in 0..MaxTime : Cardinality(StartedIn(k, t)) <= limit

\* C32: Complete is invoked only after Allow admitted the author's key, once per
\* admission and not before it, and the admissions per user never exceed the limit (5)
\* in any window (60 s); the bot's own messages and those not mentioning it reach
\* neither the limiter nor Complete; a denied message gets a retry-after reply and no
\* Complete, hence no transport call.
C32_CompleteAfterAllow ==
    /\ [](AdmittedFirst
          /\ \A k \in Keys : \A t \in 0..MaxTime : Cardinality(AdmittedIn(k, t)) <= limit)
    /\ [][DroppedTouchNothing]_vars

\* one message was denied and answered with the retry-after, another got its Complete,
\* and a message of the bot itself was dropped
C32_Witness ==
    /\ retries # {}
    /\ started # {}
    /\ ignored = {[author |-> BotID, mention |-> TRUE]}

\* a timestamp changes only in the step in which an Allow for its key returns
SlotKept ==
    /\ \A k \in Keys : requests'[k] # requests[k] => (Returns /\ Last.key = k)
    /\ started' # started => requests' = requests

\* C33: the slot recorded at admission is never released or altered by the outcome of
\* the completion: whether Complete succeeds, fails or hits its deadline, the key's
\* stored timestamps are unchanged until the next Allow for that key.
C33_SlotKept ==
    /\ [][SlotKept]_vars
    /\ [](\A k \in Keys : requests[k] = SerialStore(k, Len(hist)))

\* a Complete ended on its deadline, later than its admission, whose timestamp is
\* still stored
C33_Witness ==
    /\ Len(hist) = 1
    /\ \E c \in started : c.rec = 1 /\ c.t > hist[1].t
    /\ finished = {[key |-> hist[1].key, outcome |-> "deadline"]}
    /\ requests[hist[1].key] = <<hist[1].t>>

====
